---- MODULE Spec2Model ----
(***************************************************************************)
(* The three asynchronous state hooks of frontend/src/hooks/useApi.ts:     *)
(* useApi (operation tracker), usePaginatedApi (paginated tracker) and     *)
(* useFormApi (form tracker).  One hook instance is mounted per behaviour; *)
(* its calls overlap freely, as nothing in the source serialises them.     *)
(*                                                                         *)
(* `state` is the hook's React state with every queued update applied;     *)
(* `captured` is what the loadMore closure of the latest render holds of it *)
(* (state.hasMore, state.loading, state.page: the only reads of a render's *)
(* state in the file).  A handler runs to completion: the synchronous part *)
(* of a call up to its await is one action, and the continuation after the *)
(* await (state update, callback, settling of the returned promise) is     *)
(* another.  The specifications after Spec take one of the hooks into a    *)
(* particular environment; AuthSpec is useAuthState of hooks/useAuth.tsx,  *)
(* which composes three useApi instances with authService.                 *)
(***************************************************************************)
EXTENDS Integers, Sequences, FiniteSets, TLC

VARIABLES hook, options, state, captured, calls, lastStep

vars == <<hook, options, state, captured, calls, lastStep>>

\* Number of calls (execute / loadMore / submit) issued in one behaviour.
MaxCalls == 3

CallIds == 1..MaxCalls

Hooks == {"useApi", "usePaginatedApi", "useFormApi"}

\* JavaScript null and undefined.
Null == "null"
Undefined == "undefined"

\* Truthiness of the values the hooks test with `||` and `if`.
Truthy(v) == v \notin {Null, Undefined, ""}

-----------------------------------------------------------------------------
(* The environment: what executors, callbacks and validators may do.       *)

\* Values a single-result or form executor resolves with.
Results == {"r1", "r2"}

\* Failure values an executor rejects with: an Error with a message, an
\* Error with the empty message (new Error()), an object without message.
Failures == {"errX", "errEmpty", "errNoMessage"}

\* The exception a throwing success callback raises.
CallbackFailure == "errCallback"

MessageOf(e) ==
    CASE e = "errX" -> "X"
      [] e = "errEmpty" -> ""
      [] e = "errCallback" -> "callback failed"
      [] OTHER -> Undefined

\* The pages a list executor serves; a result names its sequence `data`,
\* `items`, both or neither.
ServerPages == << <<"a", "b">>, <<"c", "d">> >>

ServerTotal == Len(ServerPages[1]) * Len(ServerPages)

PageNumbers == 1..Len(ServerPages)

PageResult(p, naming) ==
    [hasData  |-> naming \in {"data", "both"},
     data     |-> IF naming \in {"data", "both"} THEN ServerPages[p] ELSE <<>>,
     hasItems |-> naming \in {"items", "both"},
     items    |-> IF naming = "items" THEN ServerPages[p]
                  ELSE IF naming = "both" THEN <<"z">> ELSE <<>>,
     total    |-> ServerTotal,
     page     |-> p,
     pages    |-> Len(ServerPages)]

\* How a result of the executor names its sequence.
Namings == {"data", "items", "both", "neither"}

\* The (page, append) arguments callers pass to execute themselves: any page,
\* replacing the data.  Appending calls come from loadMore, which passes
\* (state.page + 1, true).
ExecuteArgs == PageNumbers \X {FALSE}

\* Page sizes a caller passes (20 is the default of execute and loadMore).
DefaultSize == 20

Sizes == {DefaultSize}

\* Form inputs, and what the configured validator returns for each.
FormData == {"good", "bad", "blank"}

Validate(formData) ==
    CASE formData = "bad" -> "bad input"
      [] formData = "blank" -> ""
      [] OTHER -> Null

\* The options object of a hook instance: which optional members are set
\* (resetOnCall is read by useApi alone, validate by useFormApi alone).
OptionSets ==
    [resetOnCall : BOOLEAN, onSuccess : BOOLEAN, onError : BOOLEAN, validate : BOOLEAN]

OptionsOf(h) ==
    {o \in OptionSets :
        /\ (h # "useApi" => o.resetOnCall)
        /\ (h # "useFormApi" => ~o.validate)}

-----------------------------------------------------------------------------
(* Hook state.                                                             *)

useApiInitialState == [data |-> Null, loading |-> FALSE, error |-> Null]

\* Mutant: a fresh paginated tracker announces a next page.
usePaginatedApiInitialState_HasMore ==
    [data |-> <<>>, loading |-> FALSE, error |-> Null,
     page |-> 1, totalPages |-> 1, total |-> 0, hasMore |-> TRUE]

usePaginatedApiInitialState ==
    [data |-> <<>>, loading |-> FALSE, error |-> Null,
     page |-> 1, totalPages |-> 1, total |-> 0, hasMore |-> FALSE]

useFormApiInitialState ==
    [data |-> Null, loading |-> FALSE, error |-> Null, validationError |-> Null]

InitialState(h) ==
    CASE h = "useApi" -> useApiInitialState
      [] h = "usePaginatedApi" -> usePaginatedApiInitialState
      [] OTHER -> useFormApiInitialState

\* error.message || 'An unexpected error occurred'
GenericMessage == "An unexpected error occurred"

errorMessage(e) == IF Truthy(MessageOf(e)) THEN MessageOf(e) ELSE GenericMessage

-----------------------------------------------------------------------------
(* Bookkeeping of calls and of the last handler that ran.                  *)

IdleCall ==
    [pc |-> "idle", op |-> "none", page |-> 0, size |-> 0, append |-> FALSE,
     formData |-> Null]

DoneCall == [IdleCall EXCEPT !.pc = "done"]

Pending == {c \in CallIds : calls[c].pc = "pending"}

\* Calls are numbered in the order they are issued.
IsNext(c) ==
    /\ calls[c].pc = "idle"
    /\ \A d \in CallIds : d < c => calls[d].pc # "idle"

\* What the last handler did: the call it belongs to and that call's
\* arguments, what the executor had settled with, the executor and callback
\* invocations it made (with the argument each callback received), how it
\* left the promise its call returned, and its effects in program order.
Step(kind, c) ==
    [kind |-> kind, call |-> c, input |-> Null,
     settled |-> Null, threw |-> FALSE,
     invoked |-> 0, onSuccess |-> 0, onError |-> 0,
     successArg |-> Null, errorArg |-> Null,
     promise |-> "none", value |-> Null, order |-> <<>>]

\* Mutant: the success callback runs before the state update.
tryEffects_CallbackFirst(hasOnSuccess) ==
    (IF hasOnSuccess THEN <<"onSuccess">> ELSE <<>>) \o <<"setState", "return">>

\* The effects of the try block after the await, in program order: setState,
\* options.onSuccess(result) if configured, return result.
tryEffects(hasOnSuccess) ==
    <<"setState">> \o (IF hasOnSuccess THEN <<"onSuccess">> ELSE <<>>) \o <<"return">>

\* The effects of the catch block, in program order: setState,
\* options.onError(errorMessage) if configured, throw error.
catchEffects(hasOnError) ==
    <<"setState">> \o (IF hasOnError THEN <<"onError">> ELSE <<>>) \o <<"throw">>

\* A call starts and awaits its executor.
Started(c, rec) == [calls EXCEPT ![c] = [rec EXCEPT !.pc = "pending"]]

\* A call that returns without awaiting anything.
Returned(c) == [calls EXCEPT ![c] = DoneCall]

\* The record of a handler that started call c and awaits its executor.
Awaits(kind, c, rec) ==
    [Step(kind, c) EXCEPT !.input = rec, !.invoked = 1, !.promise = "pending",
                          !.order = <<"setState", "apiCall">>]

\* The record of a handler that returned at once, without a request.
Returns(kind, c, rec) ==
    [Step(kind, c) EXCEPT !.input = rec, !.promise = "resolved", !.value = Undefined]

\* The record of the continuation of call c after its executor settled: the
\* success callback receives the executor's result, the error callback the
\* message stored in the state; a success callback that throws ends the try
\* block before its return and enters the catch block.
Settles(kind, c, settled, threw, nSuccess, nError, promise, value) ==
    [Step(kind, c) EXCEPT
        !.input = [calls[c] EXCEPT !.pc = "idle"],
        !.settled = settled, !.threw = threw,
        !.onSuccess = nSuccess, !.onError = nError,
        !.successArg = IF nSuccess = 1 THEN settled ELSE Null,
        !.errorArg = IF nError = 1 THEN errorMessage(value) ELSE Null,
        !.promise = promise, !.value = value,
        !.order = IF kind = "rejected" THEN catchEffects(nError = 1)
                  ELSE IF threw
                       THEN <<"setState", "onSuccess">> \o catchEffects(nError = 1)
                       ELSE tryEffects(nSuccess = 1)]

Count(b) == IF b THEN 1 ELSE 0

\* The dependencies of the loadMore closure: [state.hasMore, state.loading,
\* state.page, execute].  The other two hooks read no state of a render.
Capture(s) ==
    IF hook = "usePaginatedApi"
    THEN [hasMore |-> s.hasMore, loading |-> s.loading, page |-> s.page]
    ELSE [hasMore |-> FALSE, loading |-> FALSE, page |-> 1]

Init ==
    /\ hook \in Hooks
    /\ options \in OptionsOf(hook)
    /\ state = InitialState(hook)
    /\ captured = Capture(state)
    /\ calls = [c \in CallIds |-> IdleCall]
    /\ lastStep = [Step("init", 0) EXCEPT !.input = IdleCall]

\* React re-renders: loadMore is re-created from the current state.
Render ==
    /\ captured # Capture(state)
    /\ captured' = Capture(state)
    /\ UNCHANGED <<hook, options, state, calls, lastStep>>

-----------------------------------------------------------------------------
(* useApi                                                                  *)

\* Mutant: execute clears data and error without entering loading.
useApiLoadingState_NoLoading(prev) ==
    [data |-> Null, loading |-> FALSE, error |-> Null]

\* Mutant: execute clears the data whatever resetOnCall says.
useApiLoadingState_AlwaysResets(prev) ==
    [data |-> Null, loading |-> TRUE, error |-> Null]

useApiLoadingState(prev) ==
    IF options.resetOnCall
    THEN [data |-> Null, loading |-> TRUE, error |-> Null]
    ELSE [prev EXCEPT !.loading = TRUE, !.error = Null]

useApiSuccessState(result) == [data |-> result, loading |-> FALSE, error |-> Null]

\* Mutant: the catch block keeps the data of the previous state.
useApiFailureState_KeepsData(error) ==
    [state EXCEPT !.loading = FALSE, !.error = errorMessage(error)]

useApiFailureState(error) ==
    [data |-> Null, loading |-> FALSE, error |-> errorMessage(error)]

useApiResetState == [data |-> Null, loading |-> FALSE, error |-> Null]

\* execute, lines 24-32: the state update before the try block and the one
\* invocation of the executor, up to the await.
useApi_execute(c) ==
    /\ hook = "useApi"
    /\ IsNext(c)
    /\ state' = useApiLoadingState(state)
    /\ calls' = Started(c, [IdleCall EXCEPT !.op = "execute"])
    /\ lastStep' = Awaits("execute", c, [IdleCall EXCEPT !.op = "execute"])
    /\ UNCHANGED <<hook, options, captured>>

\* Mutant: a completion is applied only for the call issued last.
useApi_fulfilled_LatestOnly(c, result, throws) ==
    /\ hook = "useApi"
    /\ c \in Pending
    /\ ~throws
    /\ state' = IF \E d \in CallIds : d > c /\ calls[d].pc # "idle"
                THEN state
                ELSE [data |-> result, loading |-> FALSE, error |-> Null]
    /\ calls' = [calls EXCEPT ![c] = DoneCall]
    /\ lastStep' = Settles("fulfilled", c, result, FALSE, Count(options.onSuccess), 0,
                           "resolved", result)
    /\ UNCHANGED <<hook, options, captured>>

\* execute, lines 32-39: the executor resolved with `result`.  The success
\* callback runs inside the try block, so an exception it raises is handled
\* by the catch block (lines 40-48) like a failure of the executor.
useApi_fulfilled(c, result, throws) ==
    /\ hook = "useApi"
    /\ c \in Pending
    /\ throws => options.onSuccess
    /\ state' = IF throws THEN useApiFailureState(CallbackFailure)
                ELSE useApiSuccessState(result)
    /\ calls' = [calls EXCEPT ![c] = DoneCall]
    /\ lastStep' =
          IF throws
          THEN Settles("fulfilled", c, result, TRUE, 1, Count(options.onError),
                       "rejected", CallbackFailure)
          ELSE Settles("fulfilled", c, result, FALSE, Count(options.onSuccess), 0,
                       "resolved", result)
    /\ UNCHANGED <<hook, options, captured>>

\* execute, lines 40-48: the executor rejected with `error`.
useApi_rejected(c, error) ==
    /\ hook = "useApi"
    /\ c \in Pending
    /\ state' = useApiFailureState(error)
    /\ calls' = [calls EXCEPT ![c] = DoneCall]
    /\ lastStep' = Settles("rejected", c, error, FALSE, 0, Count(options.onError),
                           "rejected", error)
    /\ UNCHANGED <<hook, options, captured>>

useApi_reset ==
    /\ hook = "useApi"
    /\ state' = useApiResetState
    /\ UNCHANGED calls
    /\ lastStep' = [Step("reset", 0) EXCEPT !.input = IdleCall]
    /\ UNCHANGED <<hook, options, captured>>

-----------------------------------------------------------------------------
(* usePaginatedApi                                                         *)

\* Mutant: execute clears the error without entering loading.
usePaginatedApiLoadingState_NoLoading(prev) == [prev EXCEPT !.error = Null]

\* Mutant: execute drops the loaded data while it loads.
usePaginatedApiLoadingState_ClearsData(prev) ==
    [prev EXCEPT !.data = <<>>, !.loading = TRUE, !.error = Null]

usePaginatedApiLoadingState(prev) == [prev EXCEPT !.loading = TRUE, !.error = Null]

\* Mutant: the items field is looked at first.
ItemsOf_PrefersItems(result) ==
    IF result.hasItems THEN result.items
    ELSE IF result.hasData THEN result.data
    ELSE <<>>

\* result.data || result.items || []   (an array, even empty, is truthy)
ItemsOf(result) ==
    IF result.hasData THEN result.data
    ELSE IF result.hasItems THEN result.items
    ELSE <<>>

\* Mutant: append mode puts the new items in front of the loaded ones.
usePaginatedApiSuccessState_Prepends(prev, result, append) ==
    [data       |-> IF append THEN ItemsOf(result) \o prev.data ELSE ItemsOf(result),
     loading    |-> FALSE,
     error      |-> Null,
     page       |-> result.page,
     totalPages |-> result.pages,
     total      |-> result.total,
     hasMore    |-> result.page < result.pages]

\* Mutant: hasMore also counts the last page as having a successor.
usePaginatedApiSuccessState_HasMoreOnLastPage(prev, result, append) ==
    [data       |-> IF append THEN prev.data \o ItemsOf(result) ELSE ItemsOf(result),
     loading    |-> FALSE,
     error      |-> Null,
     page       |-> result.page,
     totalPages |-> result.pages,
     total      |-> result.total,
     hasMore    |-> result.page <= result.pages]

usePaginatedApiSuccessState(prev, result, append) ==
    [data       |-> IF append THEN prev.data \o ItemsOf(result) ELSE ItemsOf(result),
     loading    |-> FALSE,
     error      |-> Null,
     page       |-> result.page,
     totalPages |-> result.pages,
     total      |-> result.total,
     hasMore    |-> result.page < result.pages]

\* Mutant: the catch block drops the loaded data, as in useApi.
usePaginatedApiFailureState_ClearsData(prev, error) ==
    [prev EXCEPT !.data = <<>>, !.loading = FALSE, !.error = errorMessage(error)]

\* Mutant: the catch block does not record the message.
usePaginatedApiFailureState_NoError(prev, error) == [prev EXCEPT !.loading = FALSE]

usePaginatedApiFailureState(prev, error) ==
    [prev EXCEPT !.loading = FALSE, !.error = errorMessage(error)]

\* Mutant: reset forgets the paging fields.
usePaginatedApiResetState_KeepsPaging ==
    [state EXCEPT !.data = <<>>, !.loading = FALSE, !.error = Null]

usePaginatedApiResetState ==
    [data |-> <<>>, loading |-> FALSE, error |-> Null,
     page |-> 1, totalPages |-> 1, total |-> 0, hasMore |-> FALSE]

\* The guard of loadMore, read from the state its closure captured.
loadMoreGuard(closure) == closure.hasMore /\ ~closure.loading

loadMorePage(closure) == closure.page + 1

\* execute, lines 85-100.
usePaginatedApi_execute(c, page, size, append) ==
    /\ hook = "usePaginatedApi"
    /\ IsNext(c)
    /\ <<page, append>> \in ExecuteArgs
    /\ state' = usePaginatedApiLoadingState(state)
    /\ LET rec == [IdleCall EXCEPT !.op = "execute", !.page = page,
                                   !.size = size, !.append = append]
       IN  /\ calls' = Started(c, rec)
           /\ lastStep' = Awaits("execute", c, rec)
    /\ UNCHANGED <<hook, options, captured>>

\* loadMore, lines 137-144: execute(apiCall, state.page + 1, size, true) when
\* the captured state has more pages and is not loading; nothing otherwise.
usePaginatedApi_loadMore(c, size) ==
    /\ hook = "usePaginatedApi"
    /\ IsNext(c)
    /\ LET rec == [IdleCall EXCEPT !.op = "loadMore", !.page = loadMorePage(captured),
                                   !.size = size, !.append = TRUE]
       IN  IF loadMoreGuard(captured)
           THEN /\ state' = usePaginatedApiLoadingState(state)
                /\ calls' = Started(c, rec)
                /\ lastStep' = Awaits("loadMore", c, rec)
           ELSE /\ state' = state
                /\ calls' = Returned(c)
                /\ lastStep' = Returns("loadMore", c, rec)
    /\ UNCHANGED <<hook, options, captured>>

\* execute, lines 100-117, and lines 118-130 when the success callback throws.
\* The executor answers the page it was asked for, naming the sequence `naming`.
usePaginatedApi_fulfilled(c, naming, throws) ==
    /\ hook = "usePaginatedApi"
    /\ c \in Pending
    /\ throws => options.onSuccess
    /\ LET result == PageResult(calls[c].page, naming)
           success == usePaginatedApiSuccessState(state, result, calls[c].append)
       IN  /\ state' = IF throws
                       THEN usePaginatedApiFailureState(success, CallbackFailure)
                       ELSE success
           /\ lastStep' =
                 IF throws
                 THEN Settles("fulfilled", c, result, TRUE, 1, Count(options.onError),
                              "rejected", CallbackFailure)
                 ELSE Settles("fulfilled", c, result, FALSE, Count(options.onSuccess), 0,
                              "resolved", result)
    /\ calls' = [calls EXCEPT ![c] = DoneCall]
    /\ UNCHANGED <<hook, options, captured>>

\* Mutant: a failed request is issued once more before the failure is kept.
usePaginatedApi_rejected_Retries(c, error) ==
    /\ hook = "usePaginatedApi"
    /\ c \in Pending
    /\ state' = [state EXCEPT !.loading = TRUE, !.error = Null]
    /\ calls' = calls
    /\ lastStep' = [Step("rejected", c) EXCEPT !.input = [calls[c] EXCEPT !.pc = "idle"],
                                               !.settled = error, !.invoked = 1,
                                               !.promise = "pending"]
    /\ UNCHANGED <<hook, options, captured>>

\* execute, lines 118-130.
usePaginatedApi_rejected(c, error) ==
    /\ hook = "usePaginatedApi"
    /\ c \in Pending
    /\ state' = usePaginatedApiFailureState(state, error)
    /\ calls' = [calls EXCEPT ![c] = DoneCall]
    /\ lastStep' = Settles("rejected", c, error, FALSE, 0, Count(options.onError),
                           "rejected", error)
    /\ UNCHANGED <<hook, options, captured>>

usePaginatedApi_reset ==
    /\ hook = "usePaginatedApi"
    /\ state' = usePaginatedApiResetState
    /\ UNCHANGED calls
    /\ lastStep' = [Step("reset", 0) EXCEPT !.input = IdleCall]
    /\ UNCHANGED <<hook, options, captured>>

-----------------------------------------------------------------------------
(* useFormApi                                                              *)

\* if (options.validate) { const validationError = options.validate(formData);
\*                         if (validationError) ... }
validationFails(formData) == options.validate /\ Truthy(Validate(formData))

\* Mutant: submit does not clear the validation error of an earlier attempt.
useFormApiClearedState_Kept(prev) == prev

\* setState(prev => ({ ...prev, validationError: null })), line 184.
useFormApiClearedState(prev) == [prev EXCEPT !.validationError = Null]

\* Mutant: a rejected input also clears the error of the last call.
useFormApiInvalidState_ClearsError(prev, formData) ==
    [prev EXCEPT !.validationError = Validate(formData), !.error = Null]

useFormApiInvalidState(prev, formData) ==
    [prev EXCEPT !.validationError = Validate(formData)]

\* Mutant: entering loading leaves the error of an earlier call in place.
useFormApiLoadingState_KeepsError(prev) == [prev EXCEPT !.loading = TRUE]

useFormApiLoadingState(prev) == [prev EXCEPT !.loading = TRUE, !.error = Null]

useFormApiSuccessState(result) ==
    [data |-> result, loading |-> FALSE, error |-> Null, validationError |-> Null]

\* Mutant: the catch block of submit keeps the data of the previous state.
useFormApiFailureState_KeepsData(error) ==
    [data |-> state.data, loading |-> FALSE, error |-> errorMessage(error),
     validationError |-> Null]

useFormApiFailureState(error) ==
    [data |-> Null, loading |-> FALSE, error |-> errorMessage(error),
     validationError |-> Null]

useFormApiResetState ==
    [data |-> Null, loading |-> FALSE, error |-> Null, validationError |-> Null]

\* Mutant: the `return` after recording the validator's message is missing.
useFormApi_submit_NoReturn(c, formData) ==
    /\ hook = "useFormApi"
    /\ IsNext(c)
    /\ LET rec == [IdleCall EXCEPT !.op = "submit", !.formData = formData]
           checked == IF options.validate /\ Truthy(Validate(formData))
                      THEN [state EXCEPT !.validationError = Validate(formData)]
                      ELSE [state EXCEPT !.validationError = Null]
       IN  /\ state' = [checked EXCEPT !.loading = TRUE, !.error = Null]
           /\ calls' = Started(c, rec)
           /\ lastStep' = Awaits("submit", c, rec)
    /\ UNCHANGED <<hook, options, captured>>

\* submit, lines 182-198: clear validationError, validate, and either record
\* the validator's message and return, or enter loading and call the executor.
useFormApi_submit(c, formData) ==
    /\ hook = "useFormApi"
    /\ IsNext(c)
    /\ LET rec == [IdleCall EXCEPT !.op = "submit", !.formData = formData]
           cleared == useFormApiClearedState(state)
       IN  IF validationFails(formData)
           THEN /\ state' = useFormApiInvalidState(cleared, formData)
                /\ calls' = Returned(c)
                /\ lastStep' = Returns("submit", c, rec)
           ELSE /\ state' = useFormApiLoadingState(cleared)
                /\ calls' = Started(c, rec)
                /\ lastStep' = Awaits("submit", c, rec)
    /\ UNCHANGED <<hook, options, captured>>

\* submit, lines 198-210, and lines 211-224 when the success callback throws.
useFormApi_fulfilled(c, result, throws) ==
    /\ hook = "useFormApi"
    /\ c \in Pending
    /\ throws => options.onSuccess
    /\ state' = IF throws THEN useFormApiFailureState(CallbackFailure)
                ELSE useFormApiSuccessState(result)
    /\ calls' = [calls EXCEPT ![c] = DoneCall]
    /\ lastStep' =
          IF throws
          THEN Settles("fulfilled", c, result, TRUE, 1, Count(options.onError),
                       "rejected", CallbackFailure)
          ELSE Settles("fulfilled", c, result, FALSE, Count(options.onSuccess), 0,
                       "resolved", result)
    /\ UNCHANGED <<hook, options, captured>>

\* Mutant: a completion is dropped once the tracker is no longer loading.
useFormApi_rejected_UnlessReset(c, error) ==
    /\ hook = "useFormApi"
    /\ c \in Pending
    /\ state' = IF state.loading
                THEN [data |-> Null, loading |-> FALSE, error |-> errorMessage(error),
                      validationError |-> Null]
                ELSE state
    /\ calls' = [calls EXCEPT ![c] = DoneCall]
    /\ lastStep' = Settles("rejected", c, error, FALSE, 0,
                           Count(options.onError /\ state.loading), "rejected", error)
    /\ UNCHANGED <<hook, options, captured>>

\* submit, lines 211-224.
useFormApi_rejected(c, error) ==
    /\ hook = "useFormApi"
    /\ c \in Pending
    /\ state' = useFormApiFailureState(error)
    /\ calls' = [calls EXCEPT ![c] = DoneCall]
    /\ lastStep' = Settles("rejected", c, error, FALSE, 0, Count(options.onError),
                           "rejected", error)
    /\ UNCHANGED <<hook, options, captured>>

useFormApi_reset ==
    /\ hook = "useFormApi"
    /\ state' = useFormApiResetState
    /\ UNCHANGED calls
    /\ lastStep' = [Step("reset", 0) EXCEPT !.input = IdleCall]
    /\ UNCHANGED <<hook, options, captured>>

-----------------------------------------------------------------------------

Next ==
    \/ Render
    \/ \E c \in CallIds : useApi_execute(c)
    \/ \E c \in CallIds, r \in Results, t \in BOOLEAN : useApi_fulfilled(c, r, t)
    \/ \E c \in CallIds, e \in Failures : useApi_rejected(c, e)
    \/ useApi_reset
    \/ \E c \in CallIds, p \in PageNumbers, n \in Sizes, a \in BOOLEAN :
          usePaginatedApi_execute(c, p, n, a)
    \/ \E c \in CallIds, n \in Sizes : usePaginatedApi_loadMore(c, n)
    \/ \E c \in CallIds, n \in Namings, t \in BOOLEAN :
          usePaginatedApi_fulfilled(c, n, t)
    \/ \E c \in CallIds, e \in Failures : usePaginatedApi_rejected(c, e)
    \/ usePaginatedApi_reset
    \/ \E c \in CallIds, d \in FormData : useFormApi_submit(c, d)
    \/ \E c \in CallIds, r \in Results, t \in BOOLEAN : useFormApi_fulfilled(c, r, t)
    \/ \E c \in CallIds, e \in Failures : useFormApi_rejected(c, e)
    \/ useFormApi_reset

Spec == Init /\ [][Next]_vars

-----------------------------------------------------------------------------
(* Executors that reject with any value.  Spec admits the executors of the *)
(* request executor contract, which fail with an object; a promise may     *)
(* also reject with null or undefined (Promise.reject()).  Reading         *)
(* error.message in the first line of the catch block then raises a        *)
(* TypeError: the handler ends there, before its setState and its          *)
(* callback, and the promise it returned rejects with the TypeError.       *)

TypeErrorFailure == "errTypeError"

\* The record of a catch block that raised on its first line.
CatchRaises(c) ==
    [Settles("rejected", c, Null, TRUE, 0, 0, "rejected", TypeErrorFailure)
        EXCEPT !.order = <<"throw">>]

\* execute, lines 40-41, the executor having rejected with null or undefined.
useApi_rejectedWithNull(c) ==
    /\ hook = "useApi"
    /\ c \in Pending
    /\ state' = state
    /\ calls' = [calls EXCEPT ![c] = DoneCall]
    /\ lastStep' = CatchRaises(c)
    /\ UNCHANGED <<hook, options, captured>>

\* execute, lines 118-119, likewise.
usePaginatedApi_rejectedWithNull(c) ==
    /\ hook = "usePaginatedApi"
    /\ c \in Pending
    /\ state' = state
    /\ calls' = [calls EXCEPT ![c] = DoneCall]
    /\ lastStep' = CatchRaises(c)
    /\ UNCHANGED <<hook, options, captured>>

\* submit, lines 211-212, likewise.
useFormApi_rejectedWithNull(c) ==
    /\ hook = "useFormApi"
    /\ c \in Pending
    /\ state' = state
    /\ calls' = [calls EXCEPT ![c] = DoneCall]
    /\ lastStep' = CatchRaises(c)
    /\ UNCHANGED <<hook, options, captured>>

\* The continuation of call c, whatever its executor settled with.
Settle(c) ==
    \/ \E r \in Results, t \in BOOLEAN : useApi_fulfilled(c, r, t)
    \/ \E e \in Failures : useApi_rejected(c, e)
    \/ useApi_rejectedWithNull(c)
    \/ \E n \in Namings, t \in BOOLEAN : usePaginatedApi_fulfilled(c, n, t)
    \/ \E e \in Failures : usePaginatedApi_rejected(c, e)
    \/ usePaginatedApi_rejectedWithNull(c)
    \/ \E r \in Results, t \in BOOLEAN : useFormApi_fulfilled(c, r, t)
    \/ \E e \in Failures : useFormApi_rejected(c, e)
    \/ useFormApi_rejectedWithNull(c)

AnyFailureNext ==
    \/ Next
    \/ \E c \in CallIds : useApi_rejectedWithNull(c)
    \/ \E c \in CallIds : usePaginatedApi_rejectedWithNull(c)
    \/ \E c \in CallIds : useFormApi_rejectedWithNull(c)

\* Every executor invocation settles in the end: the continuation of a
\* pending call is a task the event loop runs once the promise has settled.
AnyFailureSpec ==
    Init /\ [][AnyFailureNext]_vars /\ \A c \in CallIds : WF_vars(Settle(c))

-----------------------------------------------------------------------------
(* Executors that answer with any integers.  usePaginatedApi copies        *)
(* result.page, result.pages and result.total into its state as they come: *)
(* an executor for an empty list answers {items: [], total: 0, page: 1,    *)
(* pages: 0}, a zero-based one answers page 0.                             *)

PageFieldValues == {0, 1}

TotalFieldValues == {-1, 0}

IntegerResults ==
    [hasData : {FALSE}, data : {<<>>}, hasItems : {TRUE}, items : {<<>>},
     total : TotalFieldValues, page : PageFieldValues, pages : PageFieldValues]

\* execute, lines 100-117, the executor having resolved with `result`.
usePaginatedApi_fulfilledWith(c, result) ==
    /\ hook = "usePaginatedApi"
    /\ c \in Pending
    /\ state' = usePaginatedApiSuccessState(state, result, calls[c].append)
    /\ calls' = [calls EXCEPT ![c] = DoneCall]
    /\ lastStep' = Settles("fulfilled", c, result, FALSE, Count(options.onSuccess), 0,
                           "resolved", result)
    /\ UNCHANGED <<hook, options, captured>>

AnyResultInit == Init /\ hook = "usePaginatedApi"

AnyResultNext ==
    \/ Render
    \/ \E c \in CallIds, p \in PageNumbers, n \in Sizes :
          usePaginatedApi_execute(c, p, n, FALSE)
    \/ \E c \in CallIds, n \in Sizes : usePaginatedApi_loadMore(c, n)
    \/ \E c \in CallIds, r \in IntegerResults : usePaginatedApi_fulfilledWith(c, r)
    \/ \E c \in CallIds, e \in Failures : usePaginatedApi_rejected(c, e)
    \/ usePaginatedApi_reset

AnyResultSpec == AnyResultInit /\ [][AnyResultNext]_vars

-----------------------------------------------------------------------------
(* One caller paging through a list with usePaginatedApi: execute(exec, 1) *)
(* first, then loadMore(exec) again and again, each call made once the     *)
(* promise of the one before has resolved.  The executor serves            *)
(* ServerPages and never fails, the callbacks return normally, reset is    *)
(* not called.  React re-renders at its own pace: a caller that awaits     *)
(* calls in one handler keeps the loadMore of the render it started in.    *)

SequentialInit == Init /\ hook = "usePaginatedApi"

SequentialNext ==
    \/ Render
    \/ \E n \in Sizes : usePaginatedApi_execute(1, 1, n, FALSE)
    \/ \E c \in CallIds \ {1}, n \in Sizes :
          Pending = {} /\ usePaginatedApi_loadMore(c, n)
    \/ \E c \in CallIds, n \in {"data", "items"} : usePaginatedApi_fulfilled(c, n, FALSE)

SequentialSpec == SequentialInit /\ [][SequentialNext]_vars

-----------------------------------------------------------------------------
(* A list screen driving usePaginatedApi with execute(exec, 1), loadMore   *)
(* (exec) and reset() only, in any interleaving; the executor serves       *)
(* ServerPages or fails, the callbacks return normally.                    *)

PagingInit == Init /\ hook = "usePaginatedApi"

PagingNext ==
    \/ Render
    \/ \E c \in CallIds, n \in Sizes : usePaginatedApi_execute(c, 1, n, FALSE)
    \/ \E c \in CallIds, n \in Sizes : usePaginatedApi_loadMore(c, n)
    \/ \E c \in CallIds, n \in {"data", "items"} : usePaginatedApi_fulfilled(c, n, FALSE)
    \/ \E c \in CallIds, e \in Failures : usePaginatedApi_rejected(c, e)
    \/ usePaginatedApi_reset

PagingSpec == PagingInit /\ [][PagingNext]_vars

-----------------------------------------------------------------------------
(* useAuthState (frontend/src/hooks/useAuth.tsx): the user and isLoading   *)
(* of the auth context, over three useApi instances (loginApi,             *)
(* registerApi, verifyTokenApi) whose executors are the methods of         *)
(* authService (frontend/src/services/authService.ts), which keep the      *)
(* token and the user in localStorage.  `state` holds the two useState     *)
(* values, the state of the three useApi instances and localStorage;       *)
(* call 1 is the mount effect, the later calls are login, register and     *)
(* refreshUser.  An executor settles and the continuation of execute runs  *)
(* in one step: only microtasks lie between them.                          *)

\* What POST /auth/login and /auth/register answer, and its members.
AuthData == "authData1"

TokenOf(authData) == "t1"

UserOf(authData) == "u1"

\* What GET /auth/me answers.
UserData == "u1"

\* The failure authService throws: new Error(handleApiError(error)), whose
\* message is never empty (api.ts:71-77).
AuthFailure == "errX"

EmptyStorage == [authToken |-> Null, user |-> Null]

\* localStorage before the page loads: what an earlier session left.
InitialStorages == [authToken : {Null, TokenOf(AuthData)}, user : {Null, UserData}]

\* authService.login / register, lines 55-56 and 71-72.
authService_storeAuthData(storage, authData) ==
    [authToken |-> TokenOf(authData), user |-> UserOf(authData)]

\* authService.verifyToken, line 117.
authService_storeUser(storage, user) == [storage EXCEPT !.user = user]

\* authService.logout, lines 81-84.
authService_logout(storage) == EmptyStorage

\* The response interceptor of apiClient (api.ts:36-39) on a 401 answer.
apiClient_onUnauthorized(storage, unauthorized) ==
    IF unauthorized THEN [storage EXCEPT !.authToken = Null] ELSE storage

\* authService.isAuthenticated, lines 100-103.
authService_isAuthenticated(storage) == Truthy(storage.authToken)

\* useAuthState, lines 31-55, over the localStorage it finds.
useAuthStateInitialState(storage) ==
    [user |-> Null, isLoading |-> TRUE,
     loginApi |-> useApiInitialState,
     registerApi |-> useApiInitialState,
     verifyTokenApi |-> useApiInitialState,
     localStorage |-> storage]

\* loginApi / registerApi: onSuccess, lines 34-44.
loginApi_onSuccess(s, authData) == [s EXCEPT !.user = UserOf(authData)]

\* verifyTokenApi: onSuccess, lines 47-49.
verifyTokenApi_onSuccess(s, userData) == [s EXCEPT !.user = userData]

\* Mutant: the error callback of verifyTokenApi leaves the user in place.
verifyTokenApi_onError_KeepsUser(s) ==
    [s EXCEPT !.localStorage = authService_logout(s.localStorage)]

\* verifyTokenApi: onError, lines 50-53.
verifyTokenApi_onError(s) ==
    [s EXCEPT !.user = Null, !.localStorage = authService_logout(s.localStorage)]

\* The options the three useApi instances have in common: onSuccess is set,
\* resetOnCall is not; onError is set for verifyTokenApi alone.
useAuthStateOptions ==
    [resetOnCall |-> FALSE, onSuccess |-> TRUE, onError |-> FALSE, validate |-> FALSE]

VerifyOps == {"initializeAuth", "refreshUser"}

\* The useApi instance an operation goes through.
ApiOf(op) ==
    CASE op = "login" -> "loginApi"
      [] op = "register" -> "registerApi"
      [] OTHER -> "verifyTokenApi"

AuthInit ==
    /\ hook = "useAuthState"
    /\ options = useAuthStateOptions
    /\ \E storage \in InitialStorages : state = useAuthStateInitialState(storage)
    /\ captured = Capture(state)
    /\ calls = [c \in CallIds |-> IdleCall]
    /\ lastStep = [Step("init", 0) EXCEPT !.input = IdleCall]

\* The mount effect, lines 57-75, up to its await or, without a stored
\* session, to its end.
useAuthState_initializeAuth ==
    /\ hook = "useAuthState"
    /\ IsNext(1)
    /\ LET rec == [IdleCall EXCEPT !.op = "initializeAuth"]
       IN  IF Truthy(state.localStorage.authToken) /\ Truthy(state.localStorage.user)
           THEN /\ state' = [state EXCEPT
                                !.verifyTokenApi = useApiLoadingState(@)]
                /\ calls' = Started(1, rec)
                /\ lastStep' = Awaits("initializeAuth", 1, rec)
           ELSE /\ state' = [state EXCEPT !.isLoading = FALSE]
                /\ calls' = Returned(1)
                /\ lastStep' = Returns("initializeAuth", 1, rec)
    /\ UNCHANGED <<hook, options, captured>>

\* login, lines 77-79, and register, lines 81-83, up to the await of execute.
useAuthState_login(c, op) ==
    /\ hook = "useAuthState"
    /\ c # 1 /\ IsNext(c)
    /\ op \in {"login", "register"}
    /\ LET rec == [IdleCall EXCEPT !.op = op]
       IN  /\ state' = [state EXCEPT ![ApiOf(op)] = useApiLoadingState(@)]
           /\ calls' = Started(c, rec)
           /\ lastStep' = Awaits(op, c, rec)
    /\ UNCHANGED <<hook, options, captured>>

\* refreshUser, lines 90-94.
useAuthState_refreshUser(c) ==
    /\ hook = "useAuthState"
    /\ c # 1 /\ IsNext(c)
    /\ LET rec == [IdleCall EXCEPT !.op = "refreshUser"]
       IN  IF authService_isAuthenticated(state.localStorage)
           THEN /\ state' = [state EXCEPT
                                !.verifyTokenApi = useApiLoadingState(@)]
                /\ calls' = Started(c, rec)
                /\ lastStep' = Awaits("refreshUser", c, rec)
           ELSE /\ state' = state
                /\ calls' = Returned(c)
                /\ lastStep' = Returns("refreshUser", c, rec)
    /\ UNCHANGED <<hook, options, captured>>

\* logout, lines 85-88.
useAuthState_logout ==
    /\ hook = "useAuthState"
    /\ ~IsNext(1)
    /\ state' = [state EXCEPT !.localStorage = authService_logout(@),
                              !.user = Null]
    /\ UNCHANGED calls
    /\ lastStep' = [Step("logout", 0) EXCEPT !.input = IdleCall]
    /\ UNCHANGED <<hook, options, captured>>

\* The request of call c is answered: the authService method stores what it
\* received and resolves, execute (useApi.ts:32-38) stores the result and
\* runs onSuccess; the mount effect then ends with setIsLoading(false).
useAuthState_fulfilled(c) ==
    /\ hook = "useAuthState"
    /\ c \in Pending
    /\ LET op == calls[c].op
           result == IF op \in VerifyOps THEN UserData ELSE AuthData
           stored == [state EXCEPT
                         !.localStorage =
                             IF op \in VerifyOps
                             THEN authService_storeUser(@, result)
                             ELSE authService_storeAuthData(@, result),
                         ![ApiOf(op)] = useApiSuccessState(result)]
           called == IF op \in VerifyOps
                     THEN verifyTokenApi_onSuccess(stored, result)
                     ELSE loginApi_onSuccess(stored, result)
       IN  /\ state' = IF op = "initializeAuth"
                       THEN [called EXCEPT !.isLoading = FALSE]
                       ELSE called
           /\ lastStep' = Settles("fulfilled", c, result, FALSE, 1, 0,
                                  "resolved", Undefined)
    /\ calls' = [calls EXCEPT ![c] = DoneCall]
    /\ UNCHANGED <<hook, options, captured>>

\* The request of call c fails, with status 401 or otherwise: the response
\* interceptor and the catch block of the authService method run, execute
\* (useApi.ts:40-48) stores the message, runs onError and re-raises; the
\* mount effect swallows the failure and ends with setIsLoading(false),
\* login, register and refreshUser reject.
useAuthState_rejected(c, unauthorized) ==
    /\ hook = "useAuthState"
    /\ c \in Pending
    /\ LET op == calls[c].op
           answered == [state EXCEPT
                           !.localStorage =
                               IF op \in VerifyOps
                               THEN authService_logout(
                                        apiClient_onUnauthorized(@, unauthorized))
                               ELSE apiClient_onUnauthorized(@, unauthorized),
                           ![ApiOf(op)] = useApiFailureState(AuthFailure)]
           called == IF op \in VerifyOps THEN verifyTokenApi_onError(answered)
                     ELSE answered
           record == Settles("rejected", c, AuthFailure, FALSE, 0,
                             Count(op \in VerifyOps), "rejected", AuthFailure)
       IN  /\ state' = IF op = "initializeAuth"
                       THEN [called EXCEPT !.isLoading = FALSE]
                       ELSE called
           /\ lastStep' = IF op = "initializeAuth"
                          THEN [record EXCEPT !.promise = "resolved",
                                              !.value = Undefined]
                          ELSE record
    /\ calls' = [calls EXCEPT ![c] = DoneCall]
    /\ UNCHANGED <<hook, options, captured>>

\* What the hook returns, lines 96-109.
isAuthenticated ==
    Truthy(state.user) /\ authService_isAuthenticated(state.localStorage)

\* `error`, line 97.
contextError ==
    IF Truthy(state.loginApi.error) THEN state.loginApi.error
    ELSE IF Truthy(state.registerApi.error) THEN state.registerApi.error
    ELSE state.verifyTokenApi.error

apiLoading ==
    state.loginApi.loading \/ state.registerApi.loading \/ state.verifyTokenApi.loading

isLoading == state.isLoading \/ apiLoading

AuthNext ==
    \/ useAuthState_initializeAuth
    \/ \E c \in CallIds, op \in {"login", "register"} : useAuthState_login(c, op)
    \/ \E c \in CallIds : useAuthState_refreshUser(c)
    \/ useAuthState_logout
    \/ \E c \in CallIds : useAuthState_fulfilled(c)
    \/ \E c \in CallIds, u \in BOOLEAN : useAuthState_rejected(c, u)

AuthSpec == AuthInit /\ [][AuthNext]_vars

\* The continuation of call c, however its request was answered.
AuthSettle(c) ==
    \/ useAuthState_fulfilled(c)
    \/ \E u \in BOOLEAN : useAuthState_rejected(c, u)

\* The mount effect runs after the first render, and every request is
\* answered or times out (apiClient has a timeout of 30 seconds).
AuthFairSpec ==
    /\ AuthInit /\ [][AuthNext]_vars
    /\ WF_vars(useAuthState_initializeAuth)
    /\ \A c \in CallIds : WF_vars(AuthSettle(c))

-----------------------------------------------------------------------------
(* Vocabulary of the properties below.                                     *)

\* The last handler was the continuation of a call whose executor settled.
Completed == lastStep.kind \in {"fulfilled", "rejected"}

\* The step from the current state is the continuation of call c.
Completes(c) == c \in Pending /\ calls'[c].pc = "done" /\ lastStep'.call = c

\* The step from the current state is a call numbered c (it starts or returns).
Calls(c) == calls[c].pc = "idle" /\ calls'[c].pc # "idle"

\* The operation tracker's state triple.
Triple(data, loading, error) == [data |-> data, loading |-> loading, error |-> error]

-----------------------------------------------------------------------------
(* C1.  useApi: a single execute call (no other call in flight, no reset   *)
(* between its start and its completion) whose executor resolves with r    *)
(* leaves the state {data: r, loading: false, error: null}, and the        *)
(* promise execute returned resolves with r.                               *)
C1_ResolvedExecuteStoresResult ==
    [][\A c \in CallIds :
          (/\ hook = "useApi"
           /\ lastStep.kind = "execute" /\ lastStep.call = c
           /\ Pending = {c}
           /\ Completes(c)
           /\ lastStep'.kind = "fulfilled")
          => /\ state' = Triple(lastStep'.settled, FALSE, Null)
             /\ lastStep'.promise = "resolved"
             /\ lastStep'.value = lastStep'.settled]_vars

-----------------------------------------------------------------------------
(* C2.  useApi: a single execute call whose executor rejects with a        *)
(* failure carrying message X leaves the state {data: null, loading:       *)
(* false, error: X}, whatever data the state held while loading, and the   *)
(* promise execute returned rejects with that same failure.                *)
C2_Original_RejectedExecuteStoresMessage ==
    (/\ hook = "useApi"
     /\ lastStep.kind = "rejected"
     /\ Pending = {}
     /\ MessageOf(lastStep.settled) # Undefined)
    => /\ state = Triple(Null, FALSE, MessageOf(lastStep.settled))
       /\ lastStep.promise = "rejected"
       /\ lastStep.value = lastStep.settled

\* C2 as amended: the same for every failure whose message is a non-empty
\* string (the empty message is stored as the generic message).
C2_RejectedExecuteStoresMessage ==
    (/\ hook = "useApi"
     /\ lastStep.kind = "rejected"
     /\ Pending = {}
     /\ MessageOf(lastStep.settled) \notin {Undefined, ""})
    => /\ state = Triple(Null, FALSE, MessageOf(lastStep.settled))
       /\ lastStep.promise = "rejected"
       /\ lastStep.value = lastStep.settled

\* C2 witness: a second call, made with resetOnCall = false, has just failed
\* with "X".
C2_Witness ==
    /\ hook = "useApi"
    /\ ~options.resetOnCall
    /\ lastStep.kind = "rejected"
    /\ lastStep.call = 2
    /\ Pending = {}
    /\ lastStep.settled = "errX"
    /\ state.error = "X"

-----------------------------------------------------------------------------
(* C3.  usePaginatedApi: when loadMore is called twice in immediate        *)
(* succession, the second call while the request of the first is pending,  *)
(* the second call invokes no executor: one additional request in all.     *)
C3_SecondLoadMoreIssuesNoRequest ==
    [][\A c \in CallIds :
          (/\ hook = "usePaginatedApi"
           /\ lastStep.kind = "loadMore"
           /\ lastStep.invoked = 1
           /\ lastStep.call \in Pending
           /\ Calls(c)
           /\ lastStep'.kind = "loadMore")
          => /\ lastStep'.invoked = 0
             /\ Pending' = Pending]_vars

-----------------------------------------------------------------------------
(* C4.  useApi: when execute calls overlap, then once all of them have     *)
(* completed the state's data and error are those of the call that         *)
(* settled last, whichever call was issued first: the value its promise    *)
(* resolved with and no error, or no data and the message of the failure   *)
(* its promise rejected with.                                              *)
C4_LastSettledWins ==
    (/\ hook = "useApi"
     /\ Completed
     /\ Pending = {}
     /\ \E d \in CallIds \ {lastStep.call} : calls[d].pc = "done")
    => /\ state.data = (IF lastStep.promise = "resolved" THEN lastStep.value ELSE Null)
       /\ state.error =
             (IF lastStep.promise = "rejected" THEN errorMessage(lastStep.value) ELSE Null)

\* Call 1 was issued first and settled last, after call 2 had completed.
C4_Witness ==
    /\ hook = "useApi"
    /\ lastStep.kind = "fulfilled"
    /\ lastStep.call = 1
    /\ calls[2].pc = "done"
    /\ Pending = {}
    /\ lastStep.promise = "resolved"
    /\ state.data = lastStep.value

-----------------------------------------------------------------------------
(* C5.  reset(), in any state and also while a call is in flight, leaves   *)
(* each hook's state equal to its initial state, invokes no callback and   *)
(* issues no request.                                                      *)
C5_ResetRestoresInitialState ==
    lastStep.kind = "reset"
    => /\ state =
            CASE hook = "useApi" ->
                   [data |-> Null, loading |-> FALSE, error |-> Null]
              [] hook = "usePaginatedApi" ->
                   [data |-> <<>>, loading |-> FALSE, error |-> Null, page |-> 1,
                    totalPages |-> 1, total |-> 0, hasMore |-> FALSE]
              [] hook = "useFormApi" ->
                   [data |-> Null, loading |-> FALSE, error |-> Null,
                    validationError |-> Null]
       /\ lastStep.invoked = 0
       /\ lastStep.onSuccess = 0
       /\ lastStep.onError = 0

\* reset() has just run while a call was in flight.
C5_Witness ==
    /\ lastStep.kind = "reset"
    /\ Pending # {}
    /\ ~state.loading

-----------------------------------------------------------------------------
(* C6.  reset() does not cancel a call in flight: when that call completes *)
(* right after the reset, the completion overwrites the reset state with   *)
(* the state of its success or failure and invokes the configured          *)
(* callback.                                                               *)
C6_CompletionAfterResetOverwrites ==
    [][\A c \in CallIds :
          (lastStep.kind = "reset" /\ Completes(c))
          => LET step == lastStep'
                 failed == step.promise = "rejected"
             IN  /\ state' # state
                 /\ ~state'.loading
                 /\ state'.error = (IF failed THEN errorMessage(step.value) ELSE Null)
                 /\ hook # "usePaginatedApi"
                       => state'.data = (IF failed THEN Null ELSE step.value)
                 /\ (hook = "usePaginatedApi" /\ ~failed)
                       => /\ state'.page = step.value.page
                          /\ state'.total = step.value.total
                 /\ step.kind = "fulfilled" => step.onSuccess = Count(options.onSuccess)
                 /\ step.kind = "rejected" => step.onError = Count(options.onError)]_vars

\* reset() has run over a pending call, which may now complete.
C6_Witness ==
    /\ lastStep.kind = "reset"
    /\ Pending # {}
    /\ state = InitialState(hook)

-----------------------------------------------------------------------------
(* C7.  useFormApi: for every form input for which the configured          *)
(* validator returns a message m, submit never invokes the executor, sets  *)
(* validationError to m, leaves loading false if it was false, and its     *)
(* promise resolves.                                                       *)
FailedValidationReturns(c, m) ==
    /\ lastStep'.invoked = 0
    /\ calls'[c].pc = "done"
    /\ state'.validationError = m
    /\ ~state.loading => ~state'.loading
    /\ lastStep'.promise = "resolved"

\* C7 as claimed, for every message that is not null:
C7_Original_InvalidInputIssuesNoRequest ==
    [][\A c \in CallIds :
          (/\ hook = "useFormApi"
           /\ options.validate
           /\ Calls(c)
           /\ Validate(lastStep'.input.formData) # Null)
          => FailedValidationReturns(c, Validate(lastStep'.input.formData))]_vars

\* C7 as amended: the same for every message that is a non-empty string (the
\* empty string passes validation).
C7_InvalidInputIssuesNoRequest ==
    [][\A c \in CallIds :
          (/\ hook = "useFormApi"
           /\ options.validate
           /\ Calls(c)
           /\ Validate(lastStep'.input.formData) \notin {Null, ""})
          => FailedValidationReturns(c, Validate(lastStep'.input.formData))]_vars

\* A submit has just been turned down by the validator.
C7_Witness ==
    /\ hook = "useFormApi"
    /\ lastStep.kind = "submit"
    /\ lastStep.input.formData = "bad"
    /\ lastStep.invoked = 0
    /\ state.validationError = "bad input"
    /\ ~state.loading

-----------------------------------------------------------------------------
(* C8.  useFormApi: in every reachable state a validationError that is not *)
(* null was produced by a submit that did not invoke the executor; and a   *)
(* submit that passes validation has cleared the validationError an        *)
(* earlier attempt left by the time it invokes the executor.               *)
C8_ValidationErrorMeansNoRequest ==
    hook = "useFormApi"
    => /\ state.validationError # Null
             => /\ lastStep.kind = "submit"
                /\ lastStep.invoked = 0
                /\ lastStep.call \notin Pending
       /\ (lastStep.kind = "submit" /\ lastStep.invoked = 1)
             => state.validationError = Null

\* The second submit passed validation and awaits its executor, the first
\* call having returned or completed.
C8_Witness ==
    /\ hook = "useFormApi"
    /\ options.validate
    /\ lastStep.kind = "submit"
    /\ lastStep.call = 2
    /\ lastStep.invoked = 1
    /\ calls[1].pc = "done"
    /\ state.validationError = Null

-----------------------------------------------------------------------------
(* C9.  usePaginatedApi: when an execute call completes successfully the   *)
(* new data is the result's items if append is false, and the data held    *)
(* before followed by the result's items if append is true; page,          *)
(* totalPages and total are the result's page, pages and total; loading is *)
(* false and error null.                                                   *)
C9_SuccessMergesPage ==
    [][\A c \in CallIds :
          (/\ hook = "usePaginatedApi"
           /\ Completes(c)
           /\ lastStep'.kind = "fulfilled"
           /\ lastStep'.promise = "resolved")
          => LET result == lastStep'.settled
                 items == IF result.hasData THEN result.data
                          ELSE IF result.hasItems THEN result.items ELSE <<>>
             IN  /\ state'.data = (IF calls[c].append THEN state.data \o items ELSE items)
                 /\ state'.page = result.page
                 /\ state'.totalPages = result.pages
                 /\ state'.total = result.total
                 /\ ~state'.loading
                 /\ state'.error = Null]_vars

\* A loadMore call has appended the second page to the first.
C9_Witness ==
    /\ hook = "usePaginatedApi"
    /\ lastStep.kind = "fulfilled"
    /\ lastStep.promise = "resolved"
    /\ lastStep.input.append
    /\ state.data = <<"a", "b", "c", "d">>
    /\ state.page = 2

-----------------------------------------------------------------------------
(* C10.  usePaginatedApi: when the executor of an execute call rejects,    *)
(* error becomes the normalized message and loading false, while data,     *)
(* page, totalPages, total and hasMore keep the values they had just       *)
(* before; the promise execute returned rejects with the same failure.     *)
C10_FailureKeepsPage ==
    [][\A c \in CallIds :
          (/\ hook = "usePaginatedApi"
           /\ Completes(c)
           /\ lastStep'.kind = "rejected")
          => /\ state'.error = errorMessage(lastStep'.settled)
             /\ ~state'.loading
             /\ state'.data = state.data
             /\ state'.page = state.page
             /\ state'.totalPages = state.totalPages
             /\ state'.total = state.total
             /\ state'.hasMore = state.hasMore
             /\ lastStep'.promise = "rejected"
             /\ lastStep'.value = lastStep'.settled]_vars

\* A call has failed on a tracker that holds a loaded page.
C10_Witness ==
    /\ hook = "usePaginatedApi"
    /\ lastStep.kind = "rejected"
    /\ state.data = <<"a", "b">>
    /\ state.hasMore
    /\ state.error = GenericMessage

-----------------------------------------------------------------------------
(* C11.  usePaginatedApi: hasMore = (page < totalPages) in every reachable *)
(* state, under any interleaving of execute, loadMore, completions          *)
(* (successful or failed) and reset.                                       *)
C11_HasMoreIffPageBelowTotalPages ==
    hook = "usePaginatedApi" => (state.hasMore <=> state.page < state.totalPages)

\* A call has failed while another is in flight, on a tracker that holds the
\* first of two pages.
C11_Witness ==
    /\ hook = "usePaginatedApi"
    /\ lastStep.kind = "rejected"
    /\ Pending # {}
    /\ state.hasMore
    /\ state.page = 1
    /\ state.totalPages = 2

-----------------------------------------------------------------------------
(* C12.  usePaginatedApi: loadMore called when hasMore is false or loading *)
(* is true does nothing: it invokes no executor, leaves every field of the *)
(* state as it was, and its promise resolves at once.                      *)
C12_LoadMoreWithoutMoreOrWhileLoadingIsNoOp ==
    [][\A c \in CallIds :
          (/\ hook = "usePaginatedApi"
           /\ Calls(c)
           /\ lastStep'.kind = "loadMore"
           /\ (~state.hasMore \/ state.loading))
          => /\ lastStep'.invoked = 0
             /\ state' = state
             /\ calls'[c].pc = "done"
             /\ lastStep'.promise = "resolved"]_vars

-----------------------------------------------------------------------------
(* C13.  usePaginatedApi: loadMore called when hasMore is true and loading *)
(* is false invokes the executor exactly once, with the state's current    *)
(* page + 1 and the given size, in append mode.                            *)
C13_LoadMoreRequestsNextPage ==
    [][\A c \in CallIds :
          (/\ hook = "usePaginatedApi"
           /\ Calls(c)
           /\ lastStep'.kind = "loadMore"
           /\ state.hasMore
           /\ ~state.loading)
          => /\ lastStep'.invoked = 1
             /\ calls'[c].pc = "pending"
             /\ calls'[c].page = state.page + 1
             /\ calls'[c].size \in Sizes
             /\ calls'[c].append]_vars

-----------------------------------------------------------------------------
(* C14.  usePaginatedApi against an executor that serves a fixed sequence  *)
(* in P pages: after execute(exec, 1) has completed and loadMore(exec) has *)
(* been called k times, each call awaited before the next, data is the     *)
(* concatenation of pages 1..min(k+1, P) in order; once page P is loaded   *)
(* hasMore is false, data is as long as total, and further loadMore calls  *)
(* add nothing, as they issue no request.                                  *)
RECURSIVE ConcatPages(_)
ConcatPages(n) == IF n = 0 THEN <<>> ELSE ConcatPages(n - 1) \o ServerPages[n]

LoadMoreCalls == {c \in CallIds \ {1} : calls[c].pc = "done"}

C14_SequentialLoadMoreConcatenatesPages ==
    (/\ hook = "usePaginatedApi"
     /\ calls[1].pc = "done"
     /\ Pending = {})
    => LET k == Cardinality(LoadMoreCalls)
           P == Len(ServerPages)
           loaded == IF k + 1 < P THEN k + 1 ELSE P
       IN  /\ state.data = ConcatPages(loaded)
           /\ loaded = P => /\ ~state.hasMore
                            /\ Len(state.data) = state.total

-----------------------------------------------------------------------------
(* C15.  useApi: execute, before its executor settles, sets the state to   *)
(* {data: null, loading: true, error: null} when resetOnCall is unset or   *)
(* true; when resetOnCall is false it sets loading to true and error to    *)
(* null and leaves data as it was.                                         *)
C15_ExecuteEntersLoading ==
    [][\A c \in CallIds :
          (hook = "useApi" /\ Calls(c))
          => /\ calls'[c].pc = "pending"
             /\ state'.loading
             /\ state'.error = Null
             /\ state'.data = (IF options.resetOnCall THEN Null ELSE state.data)]_vars

\* With resetOnCall = false, execute has just been called on a tracker that
\* holds the result of an earlier call.
C15_Witness ==
    /\ hook = "useApi"
    /\ ~options.resetOnCall
    /\ lastStep.kind = "execute"
    /\ lastStep.call \in Pending
    /\ state = Triple("r1", TRUE, Null)

-----------------------------------------------------------------------------
(* C16.  useApi and useFormApi: in every reachable state with loading =    *)
(* false, under any interleaving of calls, completions and resets, data    *)
(* and error are not both different from null.                             *)
C16_DataAndErrorExclusive ==
    (hook \in {"useApi", "useFormApi"} /\ ~state.loading)
    => ~(state.data # Null /\ state.error # Null)

\* The second submit has failed on a form tracker, after the first call
\* completed.
C16_Witness ==
    /\ hook = "useFormApi"
    /\ lastStep.kind = "rejected"
    /\ lastStep.call = 2
    /\ calls[1].pc = "done"
    /\ ~state.loading
    /\ state.data = Null
    /\ state.error = "X"

-----------------------------------------------------------------------------
(* C17.  usePaginatedApi: after a completed call, data and error are not   *)
(* both different from null.                                               *)
ServerItems == {ServerPages[p][i] : p \in PageNumbers, i \in 1..Len(ServerPages[1])} \cup {"z"}

\* The data of the paginated tracker is an array, which is not null.
IsArray(v) == v \in Seq(ServerItems)

\* C17 as claimed:
C17_Original_PaginatedDataAndErrorExclusive ==
    (hook = "usePaginatedApi" /\ Completed)
    => ~(IsArray(state.data) /\ state.error # Null)

\* C17 as amended: after a completed call data is an array, never null, and
\* error is different from null exactly when the call failed; a failed call
\* leaves both different from null.
C17_PaginatedErrorIffFailed ==
    (hook = "usePaginatedApi" /\ Completed)
    => /\ IsArray(state.data)
       /\ state.error # Null <=> lastStep.promise = "rejected"

\* The first call of a tracker has failed: data is the empty array.
C17_Witness ==
    /\ hook = "usePaginatedApi"
    /\ lastStep.kind = "rejected"
    /\ lastStep.call = 1
    /\ state.data = <<>>
    /\ state.error = "X"

-----------------------------------------------------------------------------
(* C18.  All three hooks: in every reachable state, under any interleaving *)
(* of calls, overlapping calls, completions and resets, loading = true     *)
(* implies error = null.                                                   *)
C18_LoadingImpliesNoError ==
    state.loading => state.error = Null

\* A submit was turned down by the validator while an earlier submit is still
\* loading.
C18_Witness ==
    /\ hook = "useFormApi"
    /\ calls[1].pc = "done"
    /\ calls[2].pc = "pending"
    /\ lastStep.kind = "submit"
    /\ lastStep.call = 3
    /\ lastStep.invoked = 0
    /\ state.loading
    /\ state.data = Null
    /\ state.error = Null

-----------------------------------------------------------------------------
(* C19.  useFormApi: a single submit that passes validation (no validator, *)
(* or a validator returning null) sets loading to true and error to null   *)
(* and invokes the executor with formData; when the executor resolves with *)
(* r the state becomes {data: r, loading: false, error: null,              *)
(* validationError: null} and the promise resolves with r; when it rejects *)
(* with a failure of non-empty message X the state becomes {data: null,    *)
(* loading: false, error: X, validationError: null} and the promise        *)
(* rejects with that failure.                                              *)
PassesValidation(formData) == ~options.validate \/ Validate(formData) = Null

C19_ValidSubmitRunsLikeExecute ==
    [][\A c \in CallIds :
          /\ (/\ hook = "useFormApi"
              /\ Pending = {}
              /\ Calls(c)
              /\ PassesValidation(lastStep'.input.formData))
             => /\ state'.loading
                /\ state'.error = Null
                /\ lastStep'.invoked = 1
                /\ calls'[c].formData = lastStep'.input.formData
          /\ (/\ hook = "useFormApi"
              /\ lastStep.kind = "submit" /\ lastStep.call = c
              /\ Pending = {c}
              /\ PassesValidation(calls[c].formData)
              /\ Completes(c))
             => LET step == lastStep'
                IN  /\ step.kind = "fulfilled"
                          => /\ state' = [data |-> step.settled, loading |-> FALSE,
                                          error |-> Null, validationError |-> Null]
                             /\ step.promise = "resolved"
                             /\ step.value = step.settled
                    /\ (step.kind = "rejected" /\ Truthy(MessageOf(step.settled)))
                          => /\ state' = [data |-> Null, loading |-> FALSE,
                                          error |-> MessageOf(step.settled),
                                          validationError |-> Null]
                             /\ step.promise = "rejected"
                             /\ step.value = step.settled]_vars

-----------------------------------------------------------------------------
(* C20.  useFormApi: a submit that fails validation leaves the error and   *)
(* the data of the state exactly as they were before the submit; of the    *)
(* state only validationError changes.                                     *)
C20_FailedValidationKeepsErrorAndData ==
    [][\A c \in CallIds :
          (/\ hook = "useFormApi"
           /\ Calls(c)
           /\ lastStep'.invoked = 0)
          => /\ state'.error = state.error
             /\ state'.data = state.data
             /\ state'.loading = state.loading
             /\ state'.validationError = Validate(lastStep'.input.formData)]_vars

\* The validator has turned an input down on a tracker that holds the error
\* of a failed call.
C20_Witness ==
    /\ hook = "useFormApi"
    /\ lastStep.kind = "submit"
    /\ lastStep.invoked = 0
    /\ calls[1].pc = "done"
    /\ state.error = "X"
    /\ state.validationError = "bad input"

-----------------------------------------------------------------------------
(* C21.  All three hooks: for every value an executor may reject with, the *)
(* error stored in the state and the argument of the error callback are    *)
(* the failure's message if it carries a message field (a non-empty one),  *)
(* and the generic message "An unexpected error occurred" otherwise.       *)
C21_StoredErrorIsMessageOrGeneric ==
    [][\A c \in CallIds :
          (Completes(c) /\ lastStep'.kind = "rejected")
          => LET failure == lastStep'.settled
                 expected == IF MessageOf(failure) \notin {Undefined, ""}
                             THEN MessageOf(failure)
                             ELSE "An unexpected error occurred"
             IN  /\ state'.error = expected
                 /\ options.onError => /\ lastStep'.onError = 1
                                       /\ lastStep'.errorArg = expected]_vars

-----------------------------------------------------------------------------
(* C22.  All three hooks: when the executor of a call resolves, the        *)
(* configured onSuccess is invoked exactly once, with the executor's       *)
(* result, and onError is not invoked; when it rejects, the configured     *)
(* onError is invoked exactly once, with the normalized message, and       *)
(* onSuccess is not invoked; a submit that fails validation and a loadMore *)
(* that does nothing invoke neither callback.                              *)
C22_CallbackMatchesOutcome ==
    [][\A c \in CallIds :
          /\ (Completes(c) /\ lastStep'.kind = "fulfilled")
             => /\ lastStep'.onSuccess = Count(options.onSuccess)
                /\ options.onSuccess => lastStep'.successArg = lastStep'.settled
                /\ lastStep'.onError = 0
          /\ (Completes(c) /\ lastStep'.kind = "rejected")
             => /\ lastStep'.onError = Count(options.onError)
                /\ options.onError => lastStep'.errorArg = errorMessage(lastStep'.settled)
                /\ lastStep'.onSuccess = 0
          /\ (Calls(c) /\ lastStep'.invoked = 0)
             => /\ lastStep'.onSuccess = 0
                /\ lastStep'.onError = 0]_vars

-----------------------------------------------------------------------------
(* C23.  No retries: every execute call, every loadMore call that passes   *)
(* its guard and every submit that passes validation invokes the executor  *)
(* exactly once, whether it then resolves or rejects: once when the call   *)
(* starts, and never in the continuation that follows the executor's       *)
(* success or failure, which ends the call for good.                       *)
C23_ExecutorInvokedOncePerCall ==
    [][\A c \in CallIds :
          /\ Calls(c)
             => /\ lastStep'.invoked = (IF calls'[c].pc = "pending" THEN 1 ELSE 0)
                /\ lastStep'.kind = "execute" => calls'[c].pc = "pending"
                /\ (lastStep'.kind = "loadMore" /\ loadMoreGuard(captured))
                      => calls'[c].pc = "pending"
                /\ (lastStep'.kind = "submit"
                       /\ (~options.validate \/ Validate(lastStep'.input.formData) = Null))
                      => calls'[c].pc = "pending"
          /\ c \in Pending
             => \/ calls'[c] = calls[c] /\ (lastStep'.call = c => lastStep' = lastStep)
                \/ /\ calls'[c].pc = "done"
                   /\ lastStep'.call = c
                   /\ lastStep'.invoked = 0
          /\ calls[c].pc = "done" => calls'[c].pc = "done"]_vars

\* A loadMore request has failed and its call has ended.
C23_Witness ==
    /\ hook = "usePaginatedApi"
    /\ lastStep.kind = "rejected"
    /\ lastStep.input.op = "loadMore"
    /\ lastStep.invoked = 0
    /\ calls[lastStep.call].pc = "done"
    /\ Pending = {}

-----------------------------------------------------------------------------
(* C24.  Each hook, without overlapping calls: loading goes from false to  *)
(* true only when an execute, or a submit that passed validation, starts,  *)
(* and from true to false only when that call completes or at reset; and   *)
(* there is no terminal state: after any success, failure or reset a new   *)
(* execute or valid submit starts a call that sets loading to true and     *)
(* error to null, as on a fresh tracker.                                   *)
C24_LoadingFollowsTheCall ==
    [][(Cardinality(Pending) <= 1 /\ Cardinality(Pending') <= 1)
       => /\ (~state.loading /\ state'.loading)
             => \E c \in CallIds : Calls(c) /\ calls'[c].pc = "pending"
          /\ (state.loading /\ ~state'.loading)
             => \/ \E c \in CallIds : Pending = {c} /\ Completes(c)
                \/ lastStep'.kind = "reset"
          /\ \A c \in CallIds :
                (/\ Pending = {}
                 /\ Calls(c)
                 /\ \/ lastStep'.kind = "execute"
                    \/ /\ lastStep'.kind = "submit"
                       /\ ~validationFails(lastStep'.input.formData))
                => /\ calls'[c].pc = "pending"
                   /\ state'.loading
                   /\ state'.error = Null]_vars

\* A second submit is loading on a form tracker that holds the result of the
\* first.
C24_Witness ==
    /\ hook = "useFormApi"
    /\ lastStep.kind = "submit"
    /\ lastStep.call = 2
    /\ Pending = {2}
    /\ state.data = "r2"
    /\ state.loading
    /\ state.error = Null

-----------------------------------------------------------------------------
(* C25.  Right after construction, before any operation, the state of      *)
(* useApi is {data: null, loading: false, error: null}, that of            *)
(* usePaginatedApi is {data: [], loading: false, error: null, page: 1,     *)
(* totalPages: 1, total: 0, hasMore: false}, and that of useFormApi is     *)
(* {data: null, loading: false, error: null, validationError: null}.       *)
C25_InitialStateAfterConstruction ==
    (lastStep.kind = "init" /\ \A c \in CallIds : calls[c].pc = "idle")
    => /\ hook = "useApi"
             => state = [data |-> Null, loading |-> FALSE, error |-> Null]
       /\ hook = "usePaginatedApi"
             => state = [data |-> <<>>, loading |-> FALSE, error |-> Null, page |-> 1,
                         totalPages |-> 1, total |-> 0, hasMore |-> FALSE]
       /\ hook = "useFormApi"
             => state = [data |-> Null, loading |-> FALSE, error |-> Null,
                         validationError |-> Null]

\* A paginated tracker on which nothing has been called yet.
C25_Witness ==
    /\ hook = "usePaginatedApi"
    /\ lastStep.kind = "init"
    /\ \A c \in CallIds : calls[c].pc = "idle"
    /\ captured = [hasMore |-> FALSE, loading |-> FALSE, page |-> 1]

-----------------------------------------------------------------------------
(* C26.  useFormApi whose validation always passes and useApi with the     *)
(* default configuration (resetOnCall), driven by the same calls, executor *)
(* outcomes and resets, hold equal {data, loading, error} at every step,   *)
(* also while a call made after a successful one is loading.               *)
TripleOf(s) == [data |-> s.data, loading |-> s.loading, error |-> s.error]

\* The state of the useApi instance run beside the form tracker: with
\* resetOnCall every update of useApi replaces the whole state, so it is
\* determined by the last handler that ran.
OperationTrackerAfter(step) ==
    CASE step.kind = "init" -> useApiInitialState
      [] step.kind = "submit" -> useApiLoadingState(useApiInitialState)
      [] step.kind = "fulfilled" ->
            IF step.threw THEN useApiFailureState(step.value)
            ELSE useApiSuccessState(step.settled)
      [] step.kind = "rejected" -> useApiFailureState(step.settled)
      [] step.kind = "reset" -> useApiResetState

C26_FormTracksOperationTracker ==
    (hook = "useFormApi" /\ ~options.validate)
    => TripleOf(state) = OperationTrackerAfter(lastStep)

-----------------------------------------------------------------------------
(* C27.  usePaginatedApi: starting an execute call, for any page and in    *)
(* append mode or not, changes only loading, to true, and error, to null:  *)
(* data, page, totalPages, total and hasMore keep their values until the   *)
(* call completes.                                                         *)
C27_ExecuteStartKeepsPage ==
    [][\A c \in CallIds :
          (/\ hook = "usePaginatedApi"
           /\ Calls(c)
           /\ calls'[c].pc = "pending")
          => /\ state'.loading
             /\ state'.error = Null
             /\ state'.data = state.data
             /\ state'.page = state.page
             /\ state'.totalPages = state.totalPages
             /\ state'.total = state.total
             /\ state'.hasMore = state.hasMore]_vars

\* An execute call for page 2 has started on a tracker that shows page 1.
C27_Witness ==
    /\ hook = "usePaginatedApi"
    /\ lastStep.kind = "execute"
    /\ lastStep.input.page = 2
    /\ lastStep.call \in Pending
    /\ state.loading
    /\ state.data = <<"a", "b">>
    /\ state.page = 1
    /\ state.hasMore

-----------------------------------------------------------------------------
(* C28.  All three hooks: if every invocation of an executor eventually    *)
(* settles (it resolves, or rejects with any value, with or without a      *)
(* message field) and no further call is issued, every state with loading  *)
(* = true is eventually followed by a state with loading = false.          *)
C28_LoadingEventuallyEnds == state.loading ~> ~state.loading

-----------------------------------------------------------------------------
(* C29.  usePaginatedApi: the items taken from a successful page result    *)
(* are the result's data field when it is present, its items field when    *)
(* only items is present, and the empty sequence when neither is; so a     *)
(* result that names its sequence data and one that names it items leave   *)
(* the same data in the tracker.                                           *)
C29_ItemsFromDataOrItems ==
    [][\A c \in CallIds :
          (/\ hook = "usePaginatedApi"
           /\ Completes(c)
           /\ lastStep'.kind = "fulfilled"
           /\ ~lastStep'.threw)
          => LET result == lastStep'.settled
                 taken == CASE result.hasData -> result.data
                            [] ~result.hasData /\ result.hasItems -> result.items
                            [] OTHER -> <<>>
                 before == IF calls[c].append THEN state.data ELSE <<>>
             IN  /\ state'.data = before \o taken
                 /\ result.hasData # result.hasItems
                       => state'.data = before \o ServerPages[result.page]]_vars

\* A page result that carries both fields has replaced the data: the items
\* were read from its data field.
C29_Witness ==
    /\ hook = "usePaginatedApi"
    /\ lastStep.kind = "fulfilled"
    /\ ~lastStep.threw
    /\ ~lastStep.input.append
    /\ lastStep.settled.hasItems
    /\ lastStep.settled.hasData
    /\ state.data = lastStep.settled.data
    /\ state.data # lastStep.settled.items

-----------------------------------------------------------------------------
(* C30.  All three hooks, when a call completes: the state update of the   *)
(* completion is made before the success or error callback that goes with  *)
(* it is invoked, and the callback is invoked before the promise that      *)
(* execute or submit returned settles.                                     *)
C30_UpdateThenCallbackThenSettle ==
    Completed
    => LET effects == lastStep.order
       IN  /\ Len(effects) >= 2
           /\ effects[1] = "setState"
           /\ effects[Len(effects)] \in {"return", "throw"}
           /\ \A i \in 1..Len(effects) :
                 effects[i] \in {"onSuccess", "onError"}
                 => /\ i > 1
                    /\ effects[i - 1] = "setState"
                    /\ i < Len(effects)
           /\ \A i \in 1..(Len(effects) - 1) : effects[i] \notin {"return", "throw"}
           /\ Len(SelectSeq(effects, LAMBDA e : e = "onSuccess")) = lastStep.onSuccess
           /\ Len(SelectSeq(effects, LAMBDA e : e = "onError")) = lastStep.onError

\* A call has resolved on a tracker with a success callback, which was run
\* between the state update and the return.
C30_Witness ==
    /\ Completed
    /\ lastStep.promise = "resolved"
    /\ lastStep.onSuccess = 1
    /\ lastStep.order = <<"setState", "onSuccess", "return">>
    /\ ~state.loading

-----------------------------------------------------------------------------
(* C31.  usePaginatedApi: in every reachable state page >= 1, totalPages   *)
(* >= 1 and total >= 0, for every page result with integer fields an       *)
(* executor may return.                                                    *)
C31_PagingFieldsWithinRange ==
    hook = "usePaginatedApi"
    => /\ state.page >= 1
       /\ state.totalPages >= 1
       /\ state.total >= 0

-----------------------------------------------------------------------------
(* C32.  All three hooks: whenever loading = false, no executor invocation *)
(* started through the hook is still pending, under any interleaving of    *)
(* overlapping calls and completions.                                      *)
NoneInFlightUnlessLoading == ~state.loading => Pending = {}

\* reset() is called while a call is in flight.
ResetsInFlight == lastStep'.kind = "reset" /\ lastStep' # lastStep /\ Pending # {}

\* C32 as claimed: no call or completion leads to a state with loading =
\* false and a call in flight.
C32_Original_NotLoadingMeansNoneInFlight ==
    [][(NoneInFlightUnlessLoading /\ ~ResetsInFlight)
       => NoneInFlightUnlessLoading']_vars

\* C32 as amended: a call is in flight with loading = false only after the
\* completion of one of several overlapping calls, or after a reset made
\* while a call was in flight; no other step leads there.
C32_NotLoadingMeansNoneInFlightUnlessOverlapOrReset ==
    [][(/\ NoneInFlightUnlessLoading
        /\ ~ResetsInFlight
        /\ ~(\E c \in CallIds : Completes(c) /\ Pending # {c}))
       => NoneInFlightUnlessLoading']_vars

\* One of two overlapping calls has completed: loading is false while the
\* other is in flight.
C32_Witness ==
    /\ Completed
    /\ Pending # {}
    /\ ~state.loading
    /\ lastStep.input.op \in {"execute", "loadMore", "submit"}

-----------------------------------------------------------------------------
(* C33.  usePaginatedApi driven only by execute(exec, 1), loadMore(exec)   *)
(* and reset, in any interleaving (reset or a fresh execute while a load   *)
(* is in flight, failed loads), against an executor serving a fixed paged  *)
(* sequence: in every state with loading = false, data is empty or is the  *)
(* concatenation of pages 1..page in order, no page missing or twice.      *)
C33_DataIsPrefixOfPages ==
    (hook = "usePaginatedApi" /\ ~state.loading)
    => \/ state.data = <<>>
       \/ /\ state.page \in PageNumbers
          /\ state.data = ConcatPages(state.page)

-----------------------------------------------------------------------------
(* C34.  All three hooks: an exception raised inside onSuccess does not     *)
(* alter the outcome recorded for a call whose executor resolved: the      *)
(* state stays the success state (data the result, loading false, error    *)
(* null), onError is not invoked, and error becomes non-null only when the *)
(* executor itself failed.                                                 *)
C34_CallbackExceptionKeepsOutcome ==
    [][\A c \in CallIds :
          /\ (Completes(c) /\ lastStep'.kind = "fulfilled")
             => /\ state'.error = Null
                /\ ~state'.loading
                /\ state'.data = IF hook = "usePaginatedApi"
                                 THEN usePaginatedApiSuccessState(
                                          state, lastStep'.settled, calls[c].append).data
                                 ELSE lastStep'.settled
                /\ lastStep'.onError = 0
          /\ (Completes(c) /\ state.error = Null /\ state'.error # Null)
             => lastStep'.kind = "rejected"]_vars

-----------------------------------------------------------------------------
(* C35.  useFormApi: a validationError set by a submit that failed          *)
(* validation stays in the state until the next submit or reset call; the  *)
(* completion, success or failure, of an earlier submission that was still *)
(* in flight does not clear it.                                            *)
C35_CompletionKeepsValidationError ==
    [][\A c \in CallIds :
          (/\ hook = "useFormApi"
           /\ state.validationError # Null
           /\ Completes(c))
          => state'.validationError = state.validationError]_vars

-----------------------------------------------------------------------------
(* C36.  useAuthState: once logout() has been called, user stays null and   *)
(* no auth token is stored until a login, register or token verification   *)
(* is initiated after that logout; a login or registration request that    *)
(* was in flight when logout was called does not re-authenticate the       *)
(* session when it completes.  Stated for the step that follows logout:    *)
(* the completion of a call that was in flight during it.                  *)
C36_LogoutOutlastsCallsInFlight ==
    [][\A c \in CallIds :
          (/\ hook = "useAuthState"
           /\ lastStep.kind = "logout"
           /\ Completes(c))
          => /\ state'.user = Null
             /\ state'.localStorage.authToken = Null
             /\ ~isAuthenticated']_vars

-----------------------------------------------------------------------------
(* C37.  useAuthState: after a login call completes successfully, the       *)
(* combined error the auth context exposes is null, whatever register or   *)
(* token verification calls failed earlier.                                *)
C37_LoginSuccessClearsError ==
    [][\A c \in CallIds :
          (/\ hook = "useAuthState"
           /\ Completes(c)
           /\ calls[c].op = "login"
           /\ lastStep'.kind = "fulfilled")
          => contextError' = Null]_vars

-----------------------------------------------------------------------------
(* C38.  useAuthState: after a token verification fails, at mount or        *)
(* through refreshUser, with no other auth call in flight, user is null,   *)
(* neither the auth token nor the stored user remains in localStorage and  *)
(* isAuthenticated is false; at mount the failure is swallowed (the effect *)
(* ends normally) and isLoading eventually becomes false.                  *)
C38_FailedVerificationLogsOut ==
    /\ [][\A c \in CallIds :
             (/\ hook = "useAuthState"
              /\ Completes(c)
              /\ calls[c].op \in VerifyOps
              /\ lastStep'.kind = "rejected"
              /\ Pending = {c})
             => /\ state'.user = Null
                /\ state'.localStorage = EmptyStorage
                /\ ~isAuthenticated'
                /\ calls[c].op = "initializeAuth"
                   => /\ lastStep'.promise = "resolved"
                      /\ ~state'.isLoading]_vars
    /\ (/\ hook = "useAuthState"
        /\ lastStep.kind = "rejected"
        /\ lastStep.input.op = "initializeAuth") ~> ~isLoading

\* A user who had logged in is logged out by a refreshUser whose verification
\* failed, no call being in flight.
C38_Witness ==
    /\ hook = "useAuthState"
    /\ lastStep.kind = "rejected"
    /\ lastStep.input.op = "refreshUser"
    /\ state.loginApi.data = AuthData
    /\ Pending = {}
    /\ state.user = Null
    /\ state.localStorage = EmptyStorage
    /\ ~isLoading

====
